---------------------------- MODULE Spec2Model ----------------------------
(***************************************************************************)
(* Model of app.py, the Streamlit "Visualization Gallery":                 *)
(*   load_themes    - scan themes/*.yaml into a mapping stem -> document   *)
(*   get_mock_data  - memoised (st.cache_data) generator of twelve tables  *)
(*   create_chart   - one styled plotly figure from a table and a theme    *)
(*   display_charts - grid of chart panels, three per row                  *)
(*   main           - one top-to-bottom render pass of the script          *)
(*                                                                         *)
(* Numbers that are fractions in the source are kept in hundredths         *)
(* (5.5 is 550, 400000 is 40000000, the factor 1.1 is 110).                *)
(* An array drawn by np.random.normal is kept symbolically: its            *)
(* distribution parameters, its size, the position of the global random    *)
(* stream at which it was drawn, and the arithmetic applied to it.  Two    *)
(* arrays hold the same numbers exactly when these records are equal.      *)
(***************************************************************************)
EXTENDS Integers, Sequences, FiniteSets, TLC

VARIABLES
    themeDir,        \* the files of the directory themes/
    themes,          \* outcome of the latest load_themes()
    selected_theme,  \* value of the sidebar selectbox
    cache,           \* store of @st.cache_data for get_mock_data
    rng,             \* position of numpy's global random stream
    history,         \* regions get_mock_data was called with, in order
    ret,             \* value returned by the latest get_mock_data call
    firstRet,        \* per region, the value its first call returned
    bodyRuns,        \* per region, how often the generator body ran
    chartIn,         \* arguments of a create_chart call
    chartOut,        \* its outcome
    gridIn,          \* per tab, the collection handed to display_charts
    panels,          \* the panels emitted by the latest render pass
    pass,            \* number of render passes so far
    startupThemes,   \* outcome of load_themes() in the first pass
    dirAtLoad,       \* themeDir as it was when `themes` was loaded
    edits            \* changes made to themes/ since the process started

vars == <<themeDir, themes, selected_theme, cache, rng, history, ret, firstRet,
          bodyRuns, chartIn, chartOut, gridIn, panels, pass, startupThemes,
          dirAtLoad, edits>>

genVars   == <<cache, rng, history, ret, firstRet, bodyRuns>>
chartVars == <<chartIn, chartOut>>
themeVars == <<themeDir, themes, selected_theme, startupThemes, dirAtLoad, edits>>
gridVars  == <<gridIn, panels, pass>>

(***************************************************************************)
(* Bounds of the model.                                                    *)
(***************************************************************************)
MaxSeed == 2
MaxCalls == 4
MaxNumericCols == 3
MaxPalette == 3
MaxFiles == 3
MaxSeries == 12
MaxAppFiles == 2
MaxPasses == 2
MaxEdits == 1

None == [py |-> "None"]
Pending == [py |-> "not called"]
Raised(e) == [py |-> "raised", error |-> e]
IsRaised(v) == "error" \in DOMAIN v

(***************************************************************************)
(* Python dict: insertion ordered, a repeated key overwrites in place.     *)
(***************************************************************************)
DictHas(d, k) == \E i \in 1..Len(d) : d[i].key = k

DictPut(d, k, v) ==
    IF DictHas(d, k)
    THEN [i \in 1..Len(d) |-> IF d[i].key = k THEN [key |-> k, value |-> v] ELSE d[i]]
    ELSE Append(d, [key |-> k, value |-> v])

RECURSIVE DictLiteral(_)
DictLiteral(pairs) ==
    IF pairs = <<>> THEN <<>>
    ELSE LET n == Len(pairs)
         IN  DictPut(DictLiteral(SubSeq(pairs, 1, n - 1)), pairs[n][1], pairs[n][2])

DictKeys(d) == [i \in 1..Len(d) |-> d[i].key]

\* the position of key k in d
DictIndex(d, k) == (CHOOSE i \in 1..Len(d) : d[i].key = k)

(***************************************************************************)
(* pd.date_range(start, end, freq='M'): the month ends within [start, end] *)
(***************************************************************************)
IsLeap(y) == (y % 4 = 0 /\ y % 100 # 0) \/ y % 400 = 0

DaysInMonth(y, m) ==
    IF m = 2 THEN (IF IsLeap(y) THEN 29 ELSE 28)
    ELSE IF m \in {4, 6, 9, 11} THEN 30 ELSE 31

DateLess(a, b) ==
    \/ a[1] < b[1]
    \/ a[1] = b[1] /\ a[2] < b[2]
    \/ a[1] = b[1] /\ a[2] = b[2] /\ a[3] < b[3]

RECURSIVE MonthEndsFrom(_, _, _, _)
MonthEndsFrom(y, m, start, end) ==
    LET d == <<y, m, DaysInMonth(y, m)>>
    IN  IF DateLess(end, d) THEN <<>>
        ELSE (IF DateLess(d, start) THEN <<>> ELSE <<d>>)
             \o MonthEndsFrom(IF m = 12 THEN y + 1 ELSE y,
                              IF m = 12 THEN 1 ELSE m + 1, start, end)

\* a range that leaves its end point out
RECURSIVE MonthEndsBefore(_, _, _, _)
MonthEndsBefore(y, m, start, end) ==
    LET d == <<y, m, DaysInMonth(y, m)>>
    IN  IF ~DateLess(d, end) THEN <<>>
        ELSE (IF DateLess(d, start) THEN <<>> ELSE <<d>>)
             \o MonthEndsBefore(IF m = 12 THEN y + 1 ELSE y,
                                IF m = 12 THEN 1 ELSE m + 1, start, end)

date_range_open(start, end) ==
    [dtype |-> "datetime64", values |-> MonthEndsBefore(start[1], start[2], start, end)]

date_range(start, end) ==
    [dtype |-> "datetime64", values |-> MonthEndsFrom(start[1], start[2], start, end)]

dates == date_range(<<2020, 1, 1>>, <<2023, 12, 31>>)

len(index) == Len(index.values)


(***************************************************************************)
(* numpy arrays of random numbers.  normal(loc, scale, size) drawn when    *)
(* the global stream stands at `pos` consumes `size` draws of it.          *)
(***************************************************************************)
normal(loc, scale, size, pos) ==
    [dtype |-> "float64", loc |-> loc, scale |-> scale, size |-> size,
     draw |-> pos, cumsum |-> FALSE, mul |-> 100, add |-> 0]

cumsum(a) == [a EXCEPT !.cumsum = TRUE]

Times(a, f) == [a EXCEPT !.mul = (a.mul * f) \div 100, !.add = (a.add * f) \div 100]

Plus(a, c) == [a EXCEPT !.add = a.add + c]

\* x * f for a fraction f given in hundredths
Frac(x, f) == (x * f) \div 100

(***************************************************************************)
(* pd.DataFrame(dict): one column per key, in the order of the keys; the   *)
(* dtype of a column is that of the array it was built from.               *)
(***************************************************************************)
DataFrame(pairs) ==
    LET d == DictLiteral(pairs)
    IN  [i \in 1..Len(d) |-> [name |-> d[i].key, dtype |-> d[i].value.dtype,
                              data |-> d[i].value]]

(***************************************************************************)
(* get_mock_data: the per-region parameters.                               *)
(***************************************************************************)
BaseMultipliers(region) ==
    IF region = "us"
    THEN [emp_base |-> 15000000, gdp_base |-> 2300000,
          house_base |-> 40000000, wage_base |-> 3500]
    ELSE IF region = "aus"
    THEN [emp_base |-> 1200000, gdp_base |-> 200000,
          house_base |-> 80000000, wage_base |-> 4500]
    ELSE [emp_base |-> 16000000, gdp_base |-> 1800000,
          house_base |-> 30000000, wage_base |-> 3000]

\* the fall-through branch taken for "aus" instead of for the unmatched identifiers
UnemploymentLocSwapped(region) ==
    IF region = "us" THEN 550 ELSE (IF region = "eu" THEN 650 ELSE 450)

UnemploymentLoc(region) ==
    IF region = "us" THEN 550 ELSE (IF region = "aus" THEN 450 ELSE 650)

CpiBase(region) ==
    IF region = "us" THEN 10000 ELSE (IF region = "aus" THEN 11000 ELSE 10500)

InterestBase(region) ==
    IF region = "us" THEN 450 ELSE (IF region = "aus" THEN 350 ELSE 250)

BusinessFactor(region) ==
    IF region = "us" THEN 110 ELSE (IF region = "aus" THEN 100 ELSE 90)

RetailBase(region) ==
    IF region = "us" THEN 100000 ELSE (IF region = "aus" THEN 80000 ELSE 90000)

ManufacturingFactor(region) ==
    IF region = "us" THEN 110 ELSE (IF region = "aus" THEN 90 ELSE 100)

ConsumerFactor(region) ==
    IF region = "us" THEN 120 ELSE (IF region = "aus" THEN 110 ELSE 90)

\* the np.random.normal calls of one execution of the body, in evaluation order
DrawsPerRun == 14 * len(dates)

(***************************************************************************)
(* The body of get_mock_data, executed with the random stream at `pos`.    *)
(* The dict literal is evaluated top to bottom, so the k-th call of        *)
(* np.random.normal draws at pos + (k-1) * len(dates).                     *)
(***************************************************************************)
MockDataBody(region, pos) ==
    LET b == BaseMultipliers(region)
        n == len(dates)
        at(k) == pos + (k - 1) * n
    IN DictLiteral(<<
        <<"Employment Trends", DataFrame(<<
            <<"Date", dates>>,
            <<"Full Time", normal(b.emp_base, Frac(b.emp_base, 4), n, at(1))>>,
            <<"Part Time", normal(Frac(b.emp_base, 60), Frac(b.emp_base, 2), n, at(2))>> >>)>>,
        <<"Unemployment Rate", DataFrame(<<
            <<"Date", dates>>,
            <<"Rate", normal(UnemploymentLoc(region), 50, n, at(3))>> >>)>>,
        <<"GDP Growth", DataFrame(<<
            <<"Date", dates>>,
            <<"GDP", Plus(Times(cumsum(normal(50, 20, n, at(4))), b.gdp_base), b.gdp_base)>> >>)>>,
        <<"CPI Trends", DataFrame(<<
            <<"Date", dates>>,
            <<"CPI", Plus(cumsum(normal(20, 10, n, at(5))), CpiBase(region))>> >>)>>,
        <<"Wage Growth", DataFrame(<<
            <<"Date", dates>>,
            <<"Wages", Plus(cumsum(normal(30, 10, n, at(6))), b.wage_base)>> >>)>>,
        <<"Housing Prices", DataFrame(<<
            <<"Date", dates>>,
            <<"Median Price", Plus(cumsum(normal(500000, 100000, n, at(7))), b.house_base)>> >>)>>,
        <<"Interest Rates", DataFrame(<<
            <<"Date", dates>>,
            <<"Rate", Plus(cumsum(normal(2, 1, n, at(8))), InterestBase(region))>> >>)>>,
        <<"Trade Balance", DataFrame(<<
            <<"Date", dates>>,
            <<"Exports", normal(Frac(b.gdp_base, 12), Frac(b.gdp_base, 1), n, at(9))>>,
            <<"Imports", normal(Frac(b.gdp_base, 14), Frac(b.gdp_base, 1), n, at(10))>> >>)>>,
        <<"Business Confidence", DataFrame(<<
            <<"Date", dates>>,
            <<"Index", Times(normal(10000, 500, n, at(11)), BusinessFactor(region))>> >>)>>,
        <<"Retail Sales", DataFrame(<<
            <<"Date", dates>>,
            <<"Sales", Plus(cumsum(normal(40, 10, n, at(12))), RetailBase(region))>> >>)>>,
        <<"Manufacturing Index", DataFrame(<<
            <<"Date", dates>>,
            <<"Index", Times(normal(5500, 300, n, at(13)), ManufacturingFactor(region))>> >>)>>,
        <<"Consumer Confidence", DataFrame(<<
            <<"Date", dates>>,
            <<"Index", Times(normal(9500, 400, n, at(14)), ConsumerFactor(region))>> >>)>>
       >>)

(***************************************************************************)
(* @st.cache_data: the store is keyed by the argument; a hit returns the   *)
(* stored value and leaves the body alone, a miss runs the body and stores *)
(* what it returned.                                                       *)
(***************************************************************************)
NoStore == [r \in {} |-> None]

\* a store that is never consulted: every call recomputes
CacheHitNever(store, region) == FALSE

CacheHit(store, region) == region \in DOMAIN store

CachePut(store, region, value) ==
    [r \in DOMAIN store \cup {region} |-> IF r = region THEN value ELSE store[r]]

\* the outcome of get_mock_data(region): value returned, store and stream after
get_mock_data(store, pos, region) ==
    IF CacheHit(store, region)
    THEN [value |-> store[region], store |-> store, pos |-> pos, ran |-> FALSE]
    ELSE LET v == MockDataBody(region, pos)
         IN  [value |-> v, store |-> CachePut(store, region, v),
              pos |-> pos + DrawsPerRun, ran |-> TRUE]

(***************************************************************************)
(* Specification SpecGen: any sequence of get_mock_data calls in one       *)
(* process, with supported and unsupported region identifiers.             *)
(***************************************************************************)
SupportedRegions == {"us", "aus", "eu"}
RegionIds == SupportedRegions \cup {"nz", ""}

IdleChart == /\ chartIn = None
             /\ chartOut = Pending
IdleThemes == /\ themeDir = {}
              /\ themes = Pending
              /\ selected_theme = None
              /\ startupThemes = Pending
              /\ dirAtLoad = {}
              /\ edits = 0
IdleGrid == /\ gridIn = None
            /\ panels = <<>>
            /\ pass = 0
IdleGen == /\ cache = NoStore
           /\ rng = 0
           /\ history = <<>>
           /\ ret = None
           /\ firstRet = NoStore
           /\ bodyRuns = NoStore

InitGen ==
    /\ cache = NoStore
    /\ rng \in 0..MaxSeed
    /\ history = <<>>
    /\ ret = None
    /\ firstRet = NoStore
    /\ bodyRuns = NoStore
    /\ IdleChart /\ IdleThemes /\ IdleGrid

CallGetMockData(region) ==
    /\ Len(history) < MaxCalls
    /\ LET out == get_mock_data(cache, rng, region)
       IN  /\ cache' = out.store
           /\ rng' = out.pos
           /\ ret' = out.value
           /\ history' = Append(history, region)
           /\ firstRet' = IF region \in DOMAIN firstRet THEN firstRet
                          ELSE CachePut(firstRet, region, out.value)
           /\ bodyRuns' = CachePut(bodyRuns, region,
                              (IF region \in DOMAIN bodyRuns THEN bodyRuns[region] ELSE 0)
                              + (IF out.ran THEN 1 ELSE 0))
    /\ UNCHANGED <<chartVars, themeVars, gridVars>>

NextGen == \E region \in RegionIds : CallGetMockData(region)

SpecGen == InitGen /\ [][NextGen]_vars


(***************************************************************************)
(* Reading a series collection.                                            *)
(***************************************************************************)
TableOf(coll, title) == coll[DictIndex(coll, title)].value

ColumnOf(table, name) == (CHOOSE i \in 1..Len(table) : table[i].name = name)

DataOf(coll, title, name) ==
    LET t == TableOf(coll, title) IN t[ColumnOf(t, name)].data

\* a collection with the stream positions of its arrays forgotten
ParametersOf(coll) ==
    [i \in 1..Len(coll) |->
        [key |-> coll[i].key,
         value |-> [j \in 1..Len(coll[i].value) |->
            LET c == coll[i].value[j]
            IN  IF c.dtype = "float64"
                THEN [c EXCEPT !.data = [c.data EXCEPT !.draw = 0]]
                ELSE c]]]

LastRegion == history[Len(history)]

(***************************************************************************)
(* C1.  Memoisation per region: every call with region r returns the       *)
(* collection the first call with r returned, the generator body runs at   *)
(* most once per region, and calls with other regions never change what    *)
(* the store holds (and so later returns) for r.                           *)
(***************************************************************************)
C1_Memoized ==
    /\ history # <<>> => ret = firstRet[LastRegion]
    /\ DOMAIN cache = DOMAIN firstRet
    /\ \A r \in DOMAIN firstRet :
          /\ bodyRuns[r] <= 1
          /\ cache[r] = firstRet[r]

\* r called, then another region, then r again
C1_Witness ==
    /\ Len(history) >= 3
    /\ history[1] = "us" /\ history[2] = "aus" /\ history[3] = "us"
    /\ ret = firstRet["us"]
    /\ cache["aus"] # cache["us"]

(***************************************************************************)
(* C2.  The parameters depend on the region alone and every identifier is  *)
(* served: "us" has unemployment centre 5.5 and housing base 400000,       *)
(* "aus" 4.5 and 800000, every other identifier exactly the parameters of  *)
(* "eu" (6.5, 300000 and the "eu" value of every other constant).          *)
(***************************************************************************)
C2_RegionParameters ==
    /\ \A i \in 1..Len(history) : history[i] \in DOMAIN cache
    /\ history # <<>> => Len(ret) = 12
    /\ \A r \in DOMAIN cache :
          LET unemp == DataOf(cache[r], "Unemployment Rate", "Rate")
              house == DataOf(cache[r], "Housing Prices", "Median Price")
          IN  /\ ParametersOf(cache[r]) = ParametersOf(MockDataBody(r, 0))
              /\ r = "us" => unemp.loc = 550 /\ house.add = 40000000
              /\ r = "aus" => unemp.loc = 450 /\ house.add = 80000000
              /\ r \notin {"us", "aus"} =>
                    /\ unemp.loc = 650 /\ house.add = 30000000
                    /\ ParametersOf(cache[r]) = ParametersOf(MockDataBody("eu", 0))

\* an unsupported identifier was served, after the three supported ones
C2_Witness ==
    /\ DOMAIN cache = SupportedRegions \cup {"nz"}
    /\ LastRegion = "nz"
    /\ DataOf(ret, "Unemployment Rate", "Rate").loc = 650
    /\ DataOf(cache["us"], "Housing Prices", "Median Price").add = 40000000

(***************************************************************************)
(* C3.  Every returned collection has exactly twelve named series and all  *)
(* of its tables carry the same timestamp axis: the 48 months 2020-01 to   *)
(* 2023-12.                                                                *)
(***************************************************************************)
IsMonthlyAxis(values) ==
    /\ Len(values) = 48
    /\ \A i \in 1..Len(values) :
          /\ values[i][1] = 2020 + (i - 1) \div 12
          /\ values[i][2] = ((i - 1) % 12) + 1
    /\ values[1][1] = 2020 /\ values[1][2] = 1
    /\ values[Len(values)][1] = 2023 /\ values[Len(values)][2] = 12

C3_TwelveSeriesOneAxis ==
    \A r \in DOMAIN cache :
        /\ Len(cache[r]) = 12
        /\ Cardinality({cache[r][i].key : i \in 1..Len(cache[r])}) = 12
        /\ \A i \in 1..Len(cache[r]) :
              LET t == cache[r][i].value
              IN  /\ t[1].name = "Date"
                  /\ t[1].dtype = "datetime64"
                  /\ IsMonthlyAxis(t[1].data.values)
                  /\ t[1].data = cache[r][1].value[1].data
                  /\ \A j \in 2..Len(t) : t[j].data.size = Len(t[1].data.values)

C3_Witness ==
    /\ SupportedRegions \subseteq DOMAIN cache
    /\ Len(history) >= 3
    /\ Len(ret) = 12


(***************************************************************************)
(* Themes.  A theme is the mapping yaml.safe_load returns for its file: a  *)
(* function from keys to values; a string value s is kept as Str(s), the   *)
(* palette as a sequence of them.  None stands for an empty document.      *)
(***************************************************************************)
Str(s) == [str |-> s]

RequiredKeys == <<"plotly_template", "color_palette", "font_family",
                  "background_color", "paper_color">>
OptionalKeys == {"grid_color", "line_color", "text_color"}

Range(seq) == {seq[i] : i \in 1..Len(seq)}

\* dict.get(key, default)
ThemeGetDefaultOnly(theme, key, default) == default

ThemeGet(theme, key, default) ==
    IF key \in DOMAIN theme THEN theme[key] ELSE default

\* theme_config[key]: the first of `keys` that cannot be read, if any
Subscriptable(theme) == theme # None

RECURSIVE FirstMissing(_, _)
FirstMissing(theme, keys) ==
    IF keys = <<>> THEN None
    ELSE IF ~Subscriptable(theme) THEN Raised("TypeError")
    ELSE IF Head(keys) \notin DOMAIN theme THEN Raised("KeyError")
    ELSE FirstMissing(theme, Tail(keys))

(***************************************************************************)
(* create_chart                                                            *)
(***************************************************************************)
\* data.select_dtypes(include=[np.number]).columns
RECURSIVE SelectNames(_, _)
SelectNames(data, dtypes) ==
    IF data = <<>> THEN <<>>
    ELSE (IF Head(data).dtype \in dtypes THEN <<Head(data).name>> ELSE <<>>)
         \o SelectNames(Tail(data), dtypes)

select_dtypes_with_dates(data) == SelectNames(data, {"float64", "int64", "datetime64"})

select_dtypes_number(data) == SelectNames(data, {"float64", "int64"})

\* the colour px gives the i-th trace: the sequence in order, cycled
TraceColor(palette, i) == palette[((i - 1) % Len(palette)) + 1]

\* px.line(data, x='Date', y=ys, template=..., color_discrete_sequence=...)
px_line(data, ys, theme_config) ==
    LET missing == FirstMissing(theme_config, <<"plotly_template", "color_palette">>)
    IN  IF IsRaised(missing) THEN missing
        ELSE [py |-> "Figure",
              template |-> theme_config["plotly_template"],
              traces |-> [i \in 1..Len(ys) |->
                             [x |-> "Date", y |-> ys[i],
                              color |-> TraceColor(theme_config["color_palette"], i),
                              width |-> None, hovertemplate |-> None]],
              layout |-> None]

ImplementedAlsoBar(chart_type) == chart_type \in {"line", "bar"}

Implemented(chart_type) == chart_type = "line"

\* fig.update_layout(...) and fig.update_traces(...)
ApplyStyling(fig, theme_config) ==
    LET missing == FirstMissing(theme_config,
                       <<"font_family", "background_color", "paper_color">>)
        grid == ThemeGet(theme_config, "grid_color", Str("rgba(128, 128, 128, 0.1)"))
        line == ThemeGet(theme_config, "line_color", Str("rgba(128, 128, 128, 0.3)"))
        text == ThemeGet(theme_config, "text_color", Str("#1f2937"))
    IN  IF IsRaised(missing) THEN missing
        ELSE [fig EXCEPT
              !.layout =
                 [font_family |-> theme_config["font_family"],
                  plot_bgcolor |-> theme_config["background_color"],
                  paper_bgcolor |-> theme_config["paper_color"],
                  margin |-> [t |-> 30, l |-> 10, r |-> 10, b |-> 10],
                  height |-> 300,
                  xaxis |-> [showgrid |-> TRUE, gridwidth |-> 1, gridcolor |-> grid,
                             showline |-> TRUE, linewidth |-> 1, linecolor |-> line,
                             tickformat |-> "%b %Y", tickfont_color |-> text],
                  yaxis |-> [showgrid |-> TRUE, gridwidth |-> 1, gridcolor |-> grid,
                             showline |-> TRUE, linewidth |-> 1, linecolor |-> line,
                             tickformat |-> "", tickfont_color |-> text],
                  hoverlabel |-> [bgcolor |-> theme_config["paper_color"],
                                  font_size |-> 12,
                                  font_family |-> theme_config["font_family"]],
                  font_color |-> text],
              !.traces =
                 [i \in 1..Len(fig.traces) |->
                     [fig.traces[i] EXCEPT
                        !.width = 2,
                        !.hovertemplate = "%{y:,.1f}<br>%{x|%B %Y}<extra></extra>"]]]

create_chart(data, chart_type, theme_config) ==
    LET numeric_cols == select_dtypes_number(data)
        fig == IF Implemented(chart_type)
               THEN (IF Len(numeric_cols) > 1
                     THEN px_line(data, numeric_cols, theme_config)
                     ELSE IF numeric_cols = <<>>
                     THEN Raised("IndexError")
                     ELSE px_line(data, <<numeric_cols[1]>>, theme_config))
               ELSE None
    IN  IF IsRaised(fig) \/ fig = None THEN fig
        ELSE ApplyStyling(fig, theme_config)

IsFigure(v) == "traces" \in DOMAIN v

(***************************************************************************)
(* Specification SpecChart: create_chart applied once to a table, a chart  *)
(* kind and a theme taken from bounded sets.                               *)
(***************************************************************************)
ChartKinds == {"line", "bar", "scatter", ""}

\* a table with a timestamp column, a text column and k numeric columns
SyntheticTable(k) ==
    [i \in 1..(k + 2) |->
        IF i = 1 THEN [name |-> "Date", dtype |-> "datetime64", data |-> dates]
        ELSE IF i = 2 THEN [name |-> "Note", dtype |-> "object", data |-> None]
        ELSE [name |-> "Y" \o ToString(i - 2), dtype |-> "float64",
              data |-> normal(0, 100, len(dates), (i - 3) * len(dates))]]

TestTables ==
    LET c == MockDataBody("us", 0)
    IN  {c[i].value : i \in 1..Len(c)} \cup {SyntheticTable(k) : k \in 1..MaxNumericCols}

PaletteOf(n) == [i \in 1..n |-> Str("#" \o ToString(i) \o ToString(i) \o ToString(i))]

ThemeValue(key, n) ==
    CASE key = "plotly_template" -> Str("plotly_dark")
      [] key = "color_palette" -> PaletteOf(n)
      [] key = "font_family" -> Str("Arial")
      [] key = "background_color" -> Str("#fff")
      [] key = "paper_color" -> Str("#000")
      [] key = "grid_color" -> Str("#eee")
      [] key = "line_color" -> Str("#ccc")
      [] key = "text_color" -> Str("#123")

\* every theme holding all required keys or all but one, any optional keys
ThemeConfigs ==
    {None} \cup
    { [k \in (req \cup opt) |-> ThemeValue(k, n)] :
        req \in {Range(RequiredKeys)} \cup {Range(RequiredKeys) \ {k} : k \in Range(RequiredKeys)},
        opt \in SUBSET OptionalKeys,
        n \in 1..MaxPalette }

InitChart ==
    /\ chartIn \in [data : TestTables, chart_type : ChartKinds, theme_config : ThemeConfigs]
    /\ chartOut = Pending
    /\ IdleGen /\ IdleThemes /\ IdleGrid

CallCreateChart ==
    /\ chartOut = Pending
    /\ chartOut' = create_chart(chartIn.data, chartIn.chart_type, chartIn.theme_config)
    /\ UNCHANGED <<chartIn, genVars, themeVars, gridVars>>

NextChart == CallCreateChart

SpecChart == InitChart /\ [][NextChart]_vars

\* a theme holding every key create_chart reads by subscript
HasRequiredKeys(theme) ==
    /\ theme # None
    /\ Range(RequiredKeys) \subseteq DOMAIN theme

NumericColumns(data) == {i \in 1..Len(data) : data[i].dtype \in {"float64", "int64"}}

(***************************************************************************)
(* C4.  create_chart returns None, without raising, exactly when the chart *)
(* kind is not "line"; for "line" it returns a figure.  The renderer is    *)
(* given a resolved theme: one holding the five keys create_chart reads by *)
(* subscript.  (With "line" and a theme lacking one of them it raises.)    *)
(***************************************************************************)
C4_NoChartIffNotLine ==
    chartOut # Pending =>
        /\ (chartOut = None) <=> (chartIn.chart_type # "line")
        /\ (chartIn.chart_type = "line" /\ HasRequiredKeys(chartIn.theme_config))
              => IsFigure(chartOut)
        /\ (chartIn.chart_type = "line" /\ ~HasRequiredKeys(chartIn.theme_config))
              => IsRaised(chartOut)

C4_Witness ==
    /\ chartOut = None
    /\ chartIn.chart_type = "bar"
    /\ HasRequiredKeys(chartIn.theme_config)

(***************************************************************************)
(* C5.  A "line" figure has one trace per numeric column, in column order, *)
(* the timestamp column left out, and the i-th trace has the i-th colour   *)
(* of the theme's palette (cycled when the palette is shorter).            *)
(***************************************************************************)
C5_OneLinePerNumericColumn ==
    IsFigure(chartOut) =>
        LET data == chartIn.data
            palette == chartIn.theme_config["color_palette"]
            cols == NumericColumns(data)
            n == Cardinality(cols)
            nth(i) == CHOOSE c \in cols : Cardinality({d \in cols : d < c}) = i - 1
        IN  /\ Len(chartOut.traces) = n
            /\ \A i \in 1..n :
                  /\ chartOut.traces[i].y = data[nth(i)].name
                  /\ chartOut.traces[i].y # "Date"
                  /\ chartOut.traces[i].x = "Date"
                  /\ chartOut.traces[i].color = palette[((i - 1) % Len(palette)) + 1]
            /\ (n = 2 /\ Len(palette) >= 2) =>
                  /\ chartOut.traces[1].color = palette[1]
                  /\ chartOut.traces[2].color = palette[2]
            /\ n = 1 => chartOut.traces[1].color = palette[1]

\* Employment Trends, two numeric columns, drawn with a palette of three
C5_Witness ==
    /\ IsFigure(chartOut)
    /\ Len(chartOut.traces) = 2
    /\ chartOut.traces[1].y = "Full Time" /\ chartOut.traces[2].y = "Part Time"
    /\ Len(chartIn.theme_config["color_palette"]) = 3
    /\ chartOut.traces[1].color = Str("#111") /\ chartOut.traces[2].color = Str("#222")


(***************************************************************************)
(* C9 as stated.  The defaults of the optional colour keys are the strings *)
(* 'rgba(128,128,128,0.1)', 'rgba(128,128,128,0.3)' and '#1f2937'.         *)
(***************************************************************************)
StyledWith(fig, grid, line, text) ==
    /\ fig.layout.xaxis.gridcolor = grid /\ fig.layout.yaxis.gridcolor = grid
    /\ fig.layout.xaxis.linecolor = line /\ fig.layout.yaxis.linecolor = line
    /\ fig.layout.xaxis.tickfont_color = text /\ fig.layout.yaxis.tickfont_color = text
    /\ fig.layout.font_color = text

OptionalOr(theme, key, default) == IF key \in DOMAIN theme THEN theme[key] ELSE Str(default)

C9_DefaultsAsDocumented ==
    IsFigure(chartOut) =>
        StyledWith(chartOut,
            OptionalOr(chartIn.theme_config, "grid_color", "rgba(128,128,128,0.1)"),
            OptionalOr(chartIn.theme_config, "line_color", "rgba(128,128,128,0.3)"),
            OptionalOr(chartIn.theme_config, "text_color", "#1f2937"))

(***************************************************************************)
(* C9 as amended.  A theme that omits grid_color, line_color or text_color *)
(* gets the defaults 'rgba(128, 128, 128, 0.1)', 'rgba(128, 128, 128, 0.3)'*)
(* and '#1f2937' (a space after each comma) on both axes and the font, a   *)
(* theme that supplies one of them gets its own value, and a theme lacking *)
(* only optional keys never makes create_chart raise.                      *)
(***************************************************************************)
C9_OptionalColourDefaults ==
    /\ IsFigure(chartOut) =>
          StyledWith(chartOut,
              OptionalOr(chartIn.theme_config, "grid_color", "rgba(128, 128, 128, 0.1)"),
              OptionalOr(chartIn.theme_config, "line_color", "rgba(128, 128, 128, 0.3)"),
              OptionalOr(chartIn.theme_config, "text_color", "#1f2937"))
    /\ (chartOut # Pending /\ HasRequiredKeys(chartIn.theme_config)) => ~IsRaised(chartOut)

\* a theme with line_color only: two defaults and one value of its own
C9_Witness ==
    /\ IsFigure(chartOut)
    /\ DOMAIN chartIn.theme_config = Range(RequiredKeys) \cup {"line_color"}
    /\ chartOut.layout.xaxis.gridcolor = Str("rgba(128, 128, 128, 0.1)")
    /\ chartOut.layout.yaxis.linecolor = Str("#ccc")
    /\ chartOut.layout.font_color = Str("#1f2937")

(***************************************************************************)
(* Theme files.  The text of a file is its sequence of lines               *)
(* `key: value`; a line may be broken (it does not scan as YAML).          *)
(***************************************************************************)
Line(key, value) == [key |-> key, value |-> value, broken |-> FALSE]
BrokenLine == [key |-> "", value |-> None, broken |-> TRUE]

\* yaml.safe_load: a broken line fails the document, an empty document is
\* None, and of two lines with the same key the later one stands
yaml_safe_load(text) ==
    IF \E i \in 1..Len(text) : text[i].broken THEN Raised("YAMLError")
    ELSE IF text = <<>> THEN None
    ELSE LET keys == {text[i].key : i \in 1..Len(text)}
             last(k) == CHOOSE i \in 1..Len(text) :
                           /\ text[i].key = k
                           /\ \A j \in (i + 1)..Len(text) : text[j].key # k
         IN  [k \in keys |-> text[last(k)].value]

\* the theme file of the documentation: four attributes
ExampleText ==
    << Line("plotly_template", Str("plotly_dark")),
       Line("color_palette", <<Str("#111"), Str("#222")>>),
       Line("font_family", Str("Arial")),
       Line("paper_color", Str("#000")) >>

FullText ==
    << Line("plotly_template", Str("plotly_white")),
       Line("color_palette", <<Str("#111"), Str("#222"), Str("#333")>>),
       Line("font_family", Str("Inter")),
       Line("background_color", Str("#fff")),
       Line("paper_color", Str("#fafafa")),
       Line("grid_color", Str("#eee")),
       Line("text_color", Str("#123")) >>

\* font_family given twice; paper_color unquoted, so `#000` is a comment
RepeatedKeyText ==
    << Line("plotly_template", Str("plotly_dark")),
       Line("color_palette", <<Str("#111")>>),
       Line("font_family", Str("Arial")),
       Line("background_color", Str("#000")),
       Line("paper_color", None),
       Line("font_family", Str("Inter")) >>

EmptyText == <<>>

BrokenText == << Line("plotly_template", Str("plotly_dark")), BrokenLine >>

Texts == {ExampleText, FullText, RepeatedKeyText, EmptyText, BrokenText}

FileNames == { [stem |-> "dark", suffix |-> ".yaml"],
               [stem |-> "light", suffix |-> ".yaml"],
               [stem |-> "mono", suffix |-> ".yaml"],
               [stem |-> "dark", suffix |-> ".yml"],
               [stem |-> "notes", suffix |-> ".txt"] }

\* the directories of at most n files, with texts from `texts`
DirsOf(names, texts, n) ==
    UNION { { { [stem |-> f.stem, suffix |-> f.suffix, text |-> t[f]] : f \in N }
              : t \in [N -> texts] }
            : N \in {M \in SUBSET names : Cardinality(M) <= n} }

\* themes_dir.glob("*.yaml")
Glob(dir) == {f \in dir : f.suffix = ".yaml"}

\* the orders in which the file system may list a set of files
Orders(files) ==
    {o \in [1..Cardinality(files) -> files] :
        \A i, j \in 1..Cardinality(files) : o[i] = o[j] => i = j}

FileName(theme_file) == theme_file.stem \o theme_file.suffix

\* the whole file name used as the theme's name
NameWithSuffix(theme_file) == theme_file.stem \o theme_file.suffix

Stem(theme_file) == theme_file.stem

(***************************************************************************)
(* load_themes, with the files listed in the order `files`.                *)
(***************************************************************************)
RECURSIVE LoadLoop(_, _)
LoadLoop(files, acc) ==
    IF files = <<>> THEN [py |-> "dict", items |-> acc]
    ELSE LET doc == yaml_safe_load(Head(files).text)
         IN  IF IsRaised(doc) THEN doc
             ELSE LoadLoop(Tail(files), DictPut(acc, Stem(Head(files)), doc))

\* a loader that passes over the files it cannot parse
RECURSIVE LoadLoopSkipping(_, _)
LoadLoopSkipping(files, acc) ==
    IF files = <<>> THEN [py |-> "dict", items |-> acc]
    ELSE LET doc == yaml_safe_load(Head(files).text)
         IN  IF IsRaised(doc) THEN LoadLoopSkipping(Tail(files), acc)
             ELSE LoadLoopSkipping(Tail(files), DictPut(acc, Stem(Head(files)), doc))

load_themes_skipping(files) == LoadLoopSkipping(files, <<>>)

load_themes(files) == LoadLoop(files, <<>>)

IsDict(v) == "items" \in DOMAIN v

\* a dict read as a mapping, the order of insertion forgotten
AsMap(d) == [k \in Range(DictKeys(d.items)) |-> d.items[DictIndex(d.items, k)].value]

(***************************************************************************)
(* Specification SpecLoad: load_themes called on a directory snapshot,     *)
(* any number of times, the files listed in any order.                     *)
(***************************************************************************)
InitLoad ==
    /\ themeDir \in DirsOf(FileNames, Texts, MaxFiles)
    /\ themes = Pending
    /\ selected_theme = None
    /\ startupThemes = Pending
    /\ dirAtLoad = {}
    /\ edits = 0
    /\ IdleGen /\ IdleChart /\ IdleGrid

CallLoadThemes ==
    /\ \E files \in Orders(Glob(themeDir)) :
          /\ themes' = load_themes(files)
          /\ startupThemes' = IF startupThemes = Pending THEN themes' ELSE startupThemes
    /\ dirAtLoad' = themeDir
    /\ UNCHANGED <<themeDir, selected_theme, edits, genVars, chartVars, gridVars>>

NextLoad == CallLoadThemes

SpecLoad == InitLoad /\ [][NextLoad]_vars

(***************************************************************************)
(* C6.  The keys of the mapping load_themes returns are exactly the stems  *)
(* of the *.yaml files of the directory and each value is the parsed       *)
(* document of its file, unchanged; the documentation's example file       *)
(* yields exactly its four attributes; the mapping depends on the          *)
(* directory snapshot alone (every load of it gives the same mapping).     *)
(***************************************************************************)
ExampleTheme ==
    [k \in {"plotly_template", "color_palette", "font_family", "paper_color"} |->
        CASE k = "plotly_template" -> Str("plotly_dark")
          [] k = "color_palette" -> <<Str("#111"), Str("#222")>>
          [] k = "font_family" -> Str("Arial")
          [] k = "paper_color" -> Str("#000")]

C6_StemToParsedDocument ==
    IsDict(themes) =>
        /\ DOMAIN AsMap(themes) = {f.stem : f \in {g \in themeDir : g.suffix = ".yaml"}}
        /\ Len(themes.items) = Cardinality(DOMAIN AsMap(themes))
        /\ \A f \in themeDir : f.suffix = ".yaml" =>
              /\ AsMap(themes)[f.stem] = yaml_safe_load(f.text)
              /\ f.text = ExampleText => AsMap(themes)[f.stem] = ExampleTheme
        /\ IsDict(startupThemes) /\ AsMap(startupThemes) = AsMap(themes)

C6_Witness ==
    /\ IsDict(themes)
    /\ DOMAIN AsMap(themes) = {"dark", "light"}
    /\ AsMap(themes)["dark"] = ExampleTheme
    /\ Cardinality(themeDir) = 3
    /\ themes # startupThemes

\* a text that does not scan as YAML
Malformed(text) == \E i \in 1..Len(text) : text[i].broken

RECURSIVE range(_, _, _)
range(start, stop, step) ==
    IF start >= stop THEN <<>> ELSE <<start>> \o range(start + step, stop, step)

ButtonKeyNoPrefix(region_prefix, k) == "btn_" \o ToString(k)

\* f"{region_prefix}_btn_{i+j}"
ButtonKey(region_prefix, k) == region_prefix \o "_btn_" \o ToString(k)

\* the cells of the row that starts at entry i: for j in range(3), if i + j < n
RowCells(row, i, n) ==
    LET js == range(0, 3, 1)
    IN  SelectSeq([x \in 1..Len(js) |-> [row |-> row, col |-> js[x], k |-> i + js[x]]],
                  LAMBDA c : c.k < n)

RECURSIVE GridCells(_, _, _)
GridCells(starts, row, n) ==
    IF starts = <<>> THEN <<>>
    ELSE RowCells(row, Head(starts), n) \o GridCells(Tail(starts), row + 1, n)

RECURSIVE UntilRaised(_)
UntilRaised(ps) ==
    IF ps = <<>> \/ IsRaised(Head(ps).fig) THEN <<>>
    ELSE <<Head(ps)>> \o UntilRaised(Tail(ps))

display_charts(data_collections, theme_config, region_prefix) ==
    LET n == Len(data_collections)
        cells == GridCells(range(0, n, 3), 0, n)
        all == [x \in 1..Len(cells) |->
                   LET item == data_collections[cells[x].k + 1]
                   IN  [region |-> region_prefix,
                        row |-> cells[x].row,
                        col |-> cells[x].col,
                        title |-> item.key,
                        fig |-> create_chart(item.value, "line", theme_config),
                        key |-> ButtonKey(region_prefix, cells[x].k)]]
    IN  [panels |-> UntilRaised(all),
         raised |-> \E x \in 1..Len(all) : IsRaised(all[x].fig)]

(***************************************************************************)
(* Specification SpecGrid: the three tabs of main, each handing            *)
(* display_charts a collection of 0..MaxSeries series.                     *)
(***************************************************************************)
Tabs == <<"us", "aus", "eu">>

GridCollection(region, n) ==
    LET body == MockDataBody(region, 0)
    IN  [k \in 1..n |->
            IF k <= Len(body) THEN body[k]
            ELSE [key |-> "Extra " \o ToString(k), value |-> SyntheticTable(1)]]

GridTheme == yaml_safe_load(FullText)

InitGrid ==
    /\ gridIn \in { [r \in Range(Tabs) |-> GridCollection(r, n[r])] :
                      n \in [Range(Tabs) -> 0..MaxSeries] }
    /\ panels = <<>>
    /\ pass = 0
    /\ IdleGen /\ IdleChart /\ IdleThemes

RenderTabs ==
    /\ pass = 0
    /\ panels' = display_charts(gridIn["us"], GridTheme, "us").panels
                 \o display_charts(gridIn["aus"], GridTheme, "aus").panels
                 \o display_charts(gridIn["eu"], GridTheme, "eu").panels
    /\ pass' = 1
    /\ UNCHANGED <<gridIn, genVars, chartVars, themeVars>>

NextGrid == RenderTabs

SpecGrid == InitGrid /\ [][NextGrid]_vars

(***************************************************************************)
(* C10.  In one render pass every entry of each tab's collection is        *)
(* rendered exactly once, in insertion order, entry k at row k div 3 and   *)
(* column k mod 3 with button key '<region>_btn_<k>', and the button keys  *)
(* of all panels of the three tabs are pairwise distinct.                  *)
(***************************************************************************)
PanelsOf(region) == SelectSeq(panels, LAMBDA q : q.region = region)

C10_GridOfThree ==
    pass = 1 =>
        /\ Len(panels) = Len(gridIn["us"]) + Len(gridIn["aus"]) + Len(gridIn["eu"])
        /\ \A r \in Range(Tabs) :
              LET ps == PanelsOf(r)
              IN  /\ Len(ps) = Len(gridIn[r])
                  /\ \A x \in 1..Len(ps) :
                        /\ ps[x].title = gridIn[r][x].key
                        /\ ps[x].row = (x - 1) \div 3
                        /\ ps[x].col = (x - 1) % 3
                        /\ ps[x].key = r \o "_btn_" \o ToString(x - 1)
                        /\ IsFigure(ps[x].fig)
        /\ \A x, y \in 1..Len(panels) : panels[x].key = panels[y].key => x = y

\* twelve series in one tab (four full rows), a shorter collection in another
C10_Witness ==
    /\ pass = 1
    /\ Len(gridIn["us"]) = 12 /\ Len(gridIn["aus"]) = 4 /\ Len(gridIn["eu"]) = 12
    /\ PanelsOf("us")[12].row = 3 /\ PanelsOf("us")[12].col = 2
    /\ PanelsOf("aus")[4].row = 1 /\ PanelsOf("aus")[4].col = 0
    /\ PanelsOf("eu")[1].key = "eu_btn_0"


(***************************************************************************)
(* main: one render pass.  Streamlit runs the script from top to bottom    *)
(* at startup and again on every interaction; `files` is the order in      *)
(* which the directory lists its theme files and `pick` the theme the user *)
(* picked in the sidebar (None: the selection is left as it is).           *)
(***************************************************************************)
Sel(name) == [name |-> name]

\* a process that keeps the mapping of its first pass
ThemesLoadedOnce(files, startup) ==
    IF startup = Pending THEN load_themes(files) ELSE startup

\* themes = load_themes(), executed by every pass
ThemesForPass(files, startup) == load_themes(files)

\* st.sidebar.selectbox("Select Theme", list(themes.keys()))
selectbox(options, current, pick) ==
    LET wanted == IF pick # None THEN pick ELSE current
    IN  IF options = <<>> THEN None
        ELSE IF wanted # None /\ wanted.name \in Range(options) THEN wanted
        ELSE Sel(options[1])

\* one tab: get_mock_data, then display_charts
RenderTab(acc, region, theme_config) ==
    LET got == get_mock_data(acc.store, acc.pos, region)
    IN  LET shown == display_charts(got.value, theme_config, region)
        IN  [store |-> got.store, pos |-> got.pos,
             panels |-> acc.panels \o shown.panels,
             called |-> Append(acc.called, region),
             raised |-> shown.raised]

\* the tabs from the k-th on, until a chart raises
RECURSIVE RenderFrom(_, _, _)
RenderFrom(k, acc, theme_config) ==
    IF k > Len(Tabs) \/ acc.raised THEN acc
    ELSE \* each tab is rendered once, on the state the previous one left
         LET next == CHOOSE r \in {RenderTab(acc, Tabs[k], theme_config)} : TRUE
         IN  RenderFrom(k + 1, next, theme_config)

main(files, pick) ==
    LET loaded == ThemesForPass(files, startupThemes)
        options == IF IsDict(loaded) THEN DictKeys(loaded.items) ELSE <<>>
        chosen == selectbox(options, selected_theme, pick)
        aborted == IsRaised(loaded) \/ chosen = None
        start == [store |-> cache, pos |-> rng, panels |-> <<>>, called |-> <<>>,
                  raised |-> FALSE]
    IN  \E out \in {IF aborted THEN start
                    ELSE RenderFrom(1, start, AsMap(loaded)[chosen.name])} :
        /\ themes' = loaded
        /\ startupThemes' = IF pass = 0 THEN loaded ELSE startupThemes
        /\ dirAtLoad' = themeDir
        /\ selected_theme' = IF IsRaised(loaded) THEN selected_theme ELSE chosen
        /\ cache' = out.store
        /\ rng' = out.pos
        /\ panels' = out.panels
        /\ history' = history \o out.called
        /\ firstRet' = out.store
        /\ bodyRuns' = [r \in DOMAIN out.store |-> 1]
        /\ ret' = IF out.called = <<>> THEN ret
                  ELSE out.store[out.called[Len(out.called)]]
        /\ pass' = pass + 1
        /\ UNCHANGED <<themeDir, edits, chartVars, gridIn>>

(***************************************************************************)
(* Specification Spec: the running application.                            *)
(***************************************************************************)
\* the theme directories the application is run on
AppFileNames == { [stem |-> "dark", suffix |-> ".yaml"],
                  [stem |-> "light", suffix |-> ".yaml"],
                  [stem |-> "notes", suffix |-> ".txt"] }

AppTexts == {ExampleText, FullText, BrokenText}

AppDirs == DirsOf(AppFileNames, AppTexts, MaxAppFiles)

Init ==
    /\ themeDir \in AppDirs
    /\ themes = Pending
    /\ selected_theme = None
    /\ startupThemes = Pending
    /\ dirAtLoad = {}
    /\ edits = 0
    /\ cache = NoStore
    /\ rng \in {0, MaxSeed}
    /\ history = <<>>
    /\ ret = None
    /\ firstRet = NoStore
    /\ bodyRuns = NoStore
    /\ panels = <<>>
    /\ pass = 0
    /\ gridIn = None
    /\ IdleChart

\* the script's first run
Startup ==
    /\ pass = 0
    /\ \E files \in Orders(Glob(themeDir)) : main(files, None)

\* a rerun: the user picked a theme of the sidebar, or touched another widget
Rerun ==
    /\ pass > 0
    /\ pass < MaxPasses
    /\ \E files \in Orders(Glob(themeDir)) :
       \E pick \in {None} \cup (IF IsDict(themes)
                                THEN {Sel(k) : k \in Range(DictKeys(themes.items))}
                                ELSE {}) :
          main(files, pick)

\* the theme directory changes by one file while the application runs
EditThemeDir ==
    /\ pass > 0
    /\ pass < MaxPasses
    /\ edits < MaxEdits
    /\ \E d \in AppDirs :
          /\ Cardinality({FileName(f) : f \in (d \ themeDir) \cup (themeDir \ d)}) = 1
          /\ themeDir' = d
    /\ edits' = edits + 1
    /\ UNCHANGED <<themes, selected_theme, startupThemes, dirAtLoad, genVars,
                   chartVars, gridVars>>

Next == Startup \/ Rerun \/ EditThemeDir

Spec == Init /\ [][Next]_vars

\* what a load produced: the mapping, or the error it raised
Outcome(v) == IF IsDict(v) THEN AsMap(v) ELSE v

\* what loading the directory `dir` produces
LoadedFrom(dir) ==
    IF \E f \in Glob(dir) : Malformed(f.text) THEN Raised("YAMLError")
    ELSE [k \in {f.stem : f \in Glob(dir)} |->
             yaml_safe_load((CHOOSE f \in Glob(dir) : f.stem = k).text)]

(***************************************************************************)
(* C8 as stated.  The themes are loaded once, at startup: in every render  *)
(* pass after the first, the mapping used to style the charts equals the   *)
(* mapping loaded at startup.                                              *)
(***************************************************************************)
C8_ThemesOfStartup ==
    (pass >= 2 /\ panels # <<>>) => Outcome(themes) = Outcome(startupThemes)

(***************************************************************************)
(* C8 as amended.  Every render pass loads the themes anew from the theme  *)
(* directory: the mapping a pass uses is the one its own scan of the       *)
(* directory produced (the mapping of startup as long as the directory has *)
(* not changed), every chart of the pass is styled with the selected theme *)
(* of that mapping, and the pass leaves the mapping as loaded.             *)
(***************************************************************************)
C8_ThemesOfEachPass ==
    pass >= 1 =>
        /\ Outcome(themes) = LoadedFrom(dirAtLoad)
        /\ (edits = 0 \/ pass = 1) => Outcome(themes) = Outcome(startupThemes)
        /\ \A x \in 1..Len(panels) :
              /\ selected_theme # None
              /\ selected_theme.name \in DOMAIN Outcome(themes)
              /\ panels[x].fig =
                    create_chart(TableOf(cache[panels[x].region], panels[x].title),
                                 "line", Outcome(themes)[selected_theme.name])

\* a pass after the directory changed, rendering all thirty-six panels with
\* a mapping that is not the one of startup
C8_Witness ==
    /\ pass = 2
    /\ edits = 1
    /\ dirAtLoad = themeDir
    /\ IsDict(themes) /\ IsDict(startupThemes)
    /\ Outcome(themes) # Outcome(startupThemes)
    /\ Len(panels) = 36

=============================================================================
